---- MODULE Spec2Model ----
(***************************************************************************)
(* Model of cachelib/common/AtomicCounter.h: the std::atomic based         *)
(* AtomicCounterT<T> and the thread-local TLCounter.                       *)
(***************************************************************************)
EXTENDS Integers, Sequences, FiniteSets, TLC

(* ------------------------------ bounds --------------------------------- *)
\* Number of bits of the integer type T of the model (uint32_t / uint64_t
\* in the source); all arithmetic is taken modulo 2^Width.
Width == 2
\* Number of threads that call into the counters.
NumThreads == 2
\* Number of writes the threads make between them in the runs where every
\* total that the counter has had is remembered.
MaxWrites == 3

Mod == 2 ^ Width
MaxVal == Mod - 1
Values == 0 .. MaxVal
Threads == 1 .. NumThreads
\* The AtomicCounterT objects: "a" is constructed first, "b" is a copy.
Objs == {"a", "b"}
\* Arguments handed to the operations of a single AtomicCounterT.
Operands == {0, 1, 2, MaxVal}
\* Arguments handed to the operations where several cells are in play
\* (two AtomicCounterT objects, or the per-thread cells of a TLCounter).
Deltas == {1, MaxVal}
\* Arguments of TLCounter(uint64_t init); TLCounter() starts from 0.
BaseVals == {0, MaxVal}

VARIABLES
  val_,      \* AtomicCounterT::val_ of every constructed object
  tmp,       \* the value loaded by the copy assignment in flight, if any
  last,      \* the most recent completed AtomicCounterT call
  base,      \* TLCounter: the value val_ was constructed with
  tlStats,   \* TLCounter: val_.tlStats() of every thread that has a cell
  alive,     \* the threads that have not terminated
  result,    \* TLCounter: how the most recent call of a thread ended
  scan,      \* TLCounter: the get() in flight and its result
  ctorInit,  \* history: the value object "a" was constructed with
  deltaSum,  \* history: the sum of the deltas applied by add/sub/inc/dec
  tlLast,    \* history: the most recent TLCounter call of a thread
  dirty,     \* history: a cell was written since the latest get() began
  seen,      \* history: the totals the counter had while the get() ran
  lstart,    \* history: the unwrapped total when the latest get() began
  writes,    \* history: the number of writes made, where it is bounded
  rets       \* history: the call each thread made, where each makes one

atomicVars == <<val_, tmp, last>>
tlVars == <<base, tlStats, alive, result, scan>>
histVars == <<ctorInit, deltaSum, tlLast, dirty, seen, lstart, writes, rets>>
vars == <<val_, tmp, last, base, tlStats, alive, result, scan,
          ctorInit, deltaSum, tlLast, dirty, seen, lstart, writes, rets>>

(* --------------------------- unsigned arithmetic ------------------------ *)
\* Arithmetic that saturates at the ends of the range instead of wrapping.
WrapSaturating(x) == IF x > MaxVal THEN MaxVal ELSE IF x < 0 THEN 0 ELSE x

\* Arithmetic of the unsigned type T: results are reduced modulo 2^Width.
Wrap(x) == x % Mod

\* A fetch_add that stores its operand instead of adding it.
fetch_add_store(v, n) == [old |-> v, new |-> n]

\* std::atomic<T>::fetch_add: one atomic step that returns the old value.
fetch_add(v, n) == [old |-> v, new |-> Wrap(v + n)]

\* std::atomic<T>::fetch_sub: one atomic step that returns the old value.
fetch_sub(v, n) == [old |-> v, new |-> Wrap(v - n)]

(* ------------------------------ AtomicCounterT -------------------------- *)
\* The record kept of a completed call: the method, the object, the right-
\* hand side of a copy, the argument (desired), expected on entry, the cell
\* before the call, the returned value and expected on return.
Call(op, o, rhs, n, e, pre, ret, eout) ==
  [op |-> op, o |-> o, rhs |-> rhs, n |-> n, e |-> e, pre |-> pre,
   ret |-> ret, eout |-> eout]

Constructed == DOMAIN val_
\* A thread is between calls unless its copy assignment is in flight.
Idle(t) == IF tmp = <<>> THEN TRUE ELSE tmp[1].t # t
\* Every operation is called by some thread that is between calls.
Callable == \E t \in Threads : Idle(t)

\* AtomicCounterT() and AtomicCounterT(T init): the default member
\* initialiser gives 0.
AtomicCounterT_ctor(init) ==
  /\ val_ = [o \in {"a"} |-> init]
  /\ last = Call("ctor", "a", "a", init, 0, 0, <<>>, 0)
  /\ tmp = <<>>

\* AtomicCounterT(const AtomicCounterT& rhs)
AtomicCounterT_copy(rhs, o) ==
  /\ Callable
  /\ rhs \in Constructed
  /\ o \notin Constructed
  /\ val_' = [x \in Constructed \cup {o} |->
                IF x = o THEN val_[rhs] ELSE val_[x]]
  /\ last' = Call("copy", o, rhs, val_[rhs], 0, 0, <<>>, 0)
  /\ UNCHANGED tmp

\* operator=, first half: rhs.val_.load(std::memory_order_relaxed)
AtomicCounterT_assign_load(t, rhs, o) ==
  /\ tmp = <<>>
  /\ rhs \in Constructed
  /\ o \in Constructed
  /\ tmp' = <<[t |-> t, o |-> o, v |-> val_[rhs]]>>
  /\ UNCHANGED <<val_, last>>

\* An operator= that retries: it stores the loaded value, and returns only
\* if "a" still holds that value; otherwise it loads "a" again.
AtomicCounterT_assign_retry(t) ==
  /\ ~Idle(t)
  /\ LET p == tmp[1] IN
       /\ val_' = [val_ EXCEPT ![p.o] = p.v]
       /\ IF val_["a"] = p.v
            THEN /\ last' = Call("assign", p.o, p.o, p.v, 0, val_[p.o], <<>>, 0)
                 /\ tmp' = <<>>
            ELSE /\ last' = last
                 /\ tmp' = <<[p EXCEPT !.v = val_["a"]]>>

\* operator=, second half: val_ = (the loaded value)
AtomicCounterT_assign_store(t) ==
  /\ ~Idle(t)
  /\ LET p == tmp[1] IN
       /\ val_' = [val_ EXCEPT ![p.o] = p.v]
       /\ last' = Call("assign", p.o, p.o, p.v, 0, val_[p.o], <<>>, 0)
  /\ tmp' = <<>>

\* A compare_exchange_strong that stores desired whatever the cell holds.
AtomicCounterT_exchange(o, expected, desired) ==
  /\ Callable
  /\ o \in Constructed
  /\ val_' = [val_ EXCEPT ![o] = desired]
  /\ last' = Call("compare_exchange_strong", o, o, desired, expected,
                  val_[o], <<val_[o] = expected>>, val_[o])
  /\ UNCHANGED tmp

\* A compare_exchange_strong that takes expected by value: a failed call
\* leaves the caller's expected as it was.
AtomicCounterT_compare_exchange_byvalue(o, expected, desired) ==
  /\ Callable
  /\ o \in Constructed
  /\ IF val_[o] = expected
       THEN /\ val_' = [val_ EXCEPT ![o] = desired]
            /\ last' = Call("compare_exchange_strong", o, o, desired,
                            expected, val_[o], <<TRUE>>, expected)
       ELSE /\ val_' = val_
            /\ last' = Call("compare_exchange_strong", o, o, desired,
                            expected, val_[o], <<FALSE>>, expected)
  /\ UNCHANGED tmp

\* bool compare_exchange_strong(T& expected, T& desired)
AtomicCounterT_compare_exchange_strong(o, expected, desired) ==
  /\ Callable
  /\ o \in Constructed
  /\ IF val_[o] = expected
       THEN /\ val_' = [val_ EXCEPT ![o] = desired]
            /\ last' = Call("compare_exchange_strong", o, o, desired,
                            expected, val_[o], <<TRUE>>, expected)
       ELSE /\ val_' = val_
            /\ last' = Call("compare_exchange_strong", o, o, desired,
                            expected, val_[o], <<FALSE>>, val_[o])
  /\ UNCHANGED tmp

\* T get() const
AtomicCounterT_get(o) ==
  /\ Callable
  /\ o \in Constructed
  /\ last' = Call("get", o, o, 0, 0, val_[o], <<val_[o]>>, 0)
  /\ UNCHANGED <<val_, tmp>>

\* A set that stores only into a cell that still holds 0.
AtomicCounterT_set_once(o, n) ==
  /\ Callable
  /\ o \in Constructed
  /\ val_' = [val_ EXCEPT ![o] = IF val_[o] = 0 THEN n ELSE val_[o]]
  /\ last' = Call("set", o, o, n, 0, val_[o], <<>>, 0)
  /\ UNCHANGED tmp

\* void set(T n)
AtomicCounterT_set(o, n) ==
  /\ Callable
  /\ o \in Constructed
  /\ val_' = [val_ EXCEPT ![o] = n]
  /\ last' = Call("set", o, o, n, 0, val_[o], <<>>, 0)
  /\ UNCHANGED tmp

\* An add_fetch that returns what fetch_add returns: the value before.
AtomicCounterT_add_fetch_old(o, n) ==
  /\ Callable
  /\ o \in Constructed
  /\ LET r == fetch_add(val_[o], n) IN
       /\ val_' = [val_ EXCEPT ![o] = r.new]
       /\ last' = Call("add_fetch", o, o, n, 0, val_[o], <<r.old>>, 0)
  /\ UNCHANGED tmp

\* T add_fetch(T n)
AtomicCounterT_add_fetch(o, n) ==
  /\ Callable
  /\ o \in Constructed
  /\ LET r == fetch_add(val_[o], n) IN
       /\ val_' = [val_ EXCEPT ![o] = r.new]
       /\ last' = Call("add_fetch", o, o, n, 0, val_[o],
                       <<Wrap(r.old + n)>>, 0)
  /\ UNCHANGED tmp

\* An add whose cell is shared by all objects of the class.
add_body_shared(op, o, n) ==
  /\ Callable
  /\ o \in Constructed
  /\ val_' = [x \in Constructed |-> fetch_add(val_[o], n).new]
  /\ last' = Call(op, o, o, n, 0, val_[o], <<>>, 0)
  /\ UNCHANGED tmp

\* The body of add(T n), entered as `op` (add itself, or inc through add).
add_body(op, o, n) ==
  /\ Callable
  /\ o \in Constructed
  /\ val_' = [val_ EXCEPT ![o] = fetch_add(val_[o], n).new]
  /\ last' = Call(op, o, o, n, 0, val_[o], <<>>, 0)
  /\ UNCHANGED tmp

\* void add(T n)
AtomicCounterT_add(o, n) == add_body("add", o, n)

\* A sub_fetch that returns what fetch_sub returns: the value before.
AtomicCounterT_sub_fetch_old(o, n) ==
  /\ Callable
  /\ o \in Constructed
  /\ LET r == fetch_sub(val_[o], n) IN
       /\ val_' = [val_ EXCEPT ![o] = r.new]
       /\ last' = Call("sub_fetch", o, o, n, 0, val_[o], <<r.old>>, 0)
  /\ UNCHANGED tmp

\* T sub_fetch(T n)
AtomicCounterT_sub_fetch(o, n) ==
  /\ Callable
  /\ o \in Constructed
  /\ LET r == fetch_sub(val_[o], n) IN
       /\ val_' = [val_ EXCEPT ![o] = r.new]
       /\ last' = Call("sub_fetch", o, o, n, 0, val_[o],
                       <<Wrap(r.old - n)>>, 0)
  /\ UNCHANGED tmp

\* The body of sub(T n), entered as `op` (sub itself, or dec through sub).
sub_body(op, o, n) ==
  /\ Callable
  /\ o \in Constructed
  /\ val_' = [val_ EXCEPT ![o] = fetch_sub(val_[o], n).new]
  /\ last' = Call(op, o, o, n, 0, val_[o], <<>>, 0)
  /\ UNCHANGED tmp

\* void sub(T n)
AtomicCounterT_sub(o, n) == sub_body("sub", o, n)

\* void inc() { add(1); }
AtomicCounterT_inc(o) == add_body("inc", o, 1)

\* A dec that calls add(1).
AtomicCounterT_dec_adds(o) == add_body("dec", o, 1)

\* void dec() { sub(1); }
AtomicCounterT_dec(o) == sub_body("dec", o, 1)

(* -------------------------------- TLCounter ----------------------------- *)
\* How a call ended: the value it returned, if any, and the message of the
\* exception it threw, if any.
Returned == [ret |-> <<>>, raised |-> ""]
Threw(msg) == [ret |-> <<>>, raised |-> msg]

\* No get() is in flight and none has returned.
NoScan == [pc |-> "idle", acc |-> 0, todo |-> {}, visited |-> {}]

\* val_.tlStats() read by thread t: the thread's cell, created with value 0
\* when the thread touches the counter for the first time.
Cell(t) == IF t \in DOMAIN tlStats THEN tlStats[t] ELSE 0

\* val_.tlStats() of thread t written with v; the other cells are kept.
Assign(t, v) ==
  [u \in DOMAIN tlStats \cup {t} |-> IF u = t THEN v ELSE tlStats[u]]

RECURSIVE SumCells(_, _)
\* The sum of the cells f of the threads in S.
SumCells(f, S) ==
  IF S = {} THEN 0
  ELSE LET u == CHOOSE x \in S : TRUE IN f[u] + SumCells(f, S \ {u})

\* val_.getSnapshot() when no cell changes while it runs: the base plus the
\* cells of all threads, live or terminated.
getSnapshot == Wrap(base + SumCells(tlStats, DOMAIN tlStats))

\* The base plus the cells of all threads as a number, before it is
\* reduced to the width of the type.
Total == base + SumCells(tlStats, DOMAIN tlStats)

\* TLCounter() and TLCounter(uint64_t init)
TLCounter_ctor(init) ==
  /\ base = init
  /\ tlStats = [u \in {} |-> 0]
  /\ alive = Threads
  /\ result = Returned
  /\ scan = NoScan

\* uint64_t get() const, entry: getSnapshot starts from the base and has to
\* visit every cell that exists now.
TLCounter_get_begin ==
  /\ scan.pc \in {"idle", "done"}
  /\ scan' = [pc |-> "scanning", acc |-> base, todo |-> DOMAIN tlStats,
              visited |-> {}]
  /\ UNCHANGED <<base, tlStats, alive, result>>

\* getSnapshot adds the cell of thread u; a cell created after the
\* enumeration began may be visited as well.
TLCounter_get_visit(u) ==
  /\ scan.pc = "scanning"
  /\ u \in DOMAIN tlStats \ scan.visited
  /\ scan' = [scan EXCEPT !.acc = Wrap(scan.acc + tlStats[u]),
                          !.todo = scan.todo \ {u},
                          !.visited = scan.visited \cup {u}]
  /\ UNCHANGED <<base, tlStats, alive, result>>

\* uint64_t get() const, return: every cell that existed at entry was added.
TLCounter_get_return ==
  /\ scan.pc = "scanning"
  /\ scan.todo = {}
  /\ scan' = [pc |-> "done", acc |-> scan.acc, todo |-> {}, visited |-> {}]
  /\ UNCHANGED <<base, tlStats, alive, result>>

\* A set that also clears the cells of the other threads.
TLCounter_set_total(t, n) ==
  /\ t \in alive
  /\ tlStats' = [u \in DOMAIN tlStats \cup {t} |-> IF u = t THEN n ELSE 0]
  /\ result' = Returned
  /\ UNCHANGED <<base, alive, scan>>

\* A set that adds to the cell instead of replacing it.
TLCounter_set_adds(t, n) ==
  /\ t \in alive
  /\ tlStats' = Assign(t, Wrap(Cell(t) + n))
  /\ result' = Returned
  /\ UNCHANGED <<base, alive, scan>>

\* void set(uint64_t n) { val_.tlStats() = n; }
TLCounter_set(t, n) ==
  /\ t \in alive
  /\ tlStats' = Assign(t, n)
  /\ result' = Returned
  /\ UNCHANGED <<base, alive, scan>>

\* An add_fetch that behaves as AtomicCounterT::add_fetch on the cell.
TLCounter_add_fetch_cell(t, n) ==
  /\ t \in alive
  /\ tlStats' = Assign(t, Wrap(Cell(t) + n))
  /\ result' = [ret |-> <<Wrap(Cell(t) + n)>>, raised |-> ""]
  /\ UNCHANGED <<base, alive, scan>>

\* uint64_t add_fetch(uint64_t) { throw std::runtime_error(...); }
TLCounter_add_fetch(t, n) ==
  /\ t \in alive
  /\ result' = Threw("add_fetch not supported")
  /\ UNCHANGED <<base, tlStats, alive, scan>>

\* An add whose first call by a thread only creates the thread's cell.
TLCounter_add_lazy(t, n) ==
  /\ t \in alive
  /\ tlStats' = Assign(t, IF t \in DOMAIN tlStats THEN Wrap(Cell(t) + n) ELSE 0)
  /\ result' = Returned
  /\ UNCHANGED <<base, alive, scan>>

\* An add that overwrites the cell with its operand.
TLCounter_add_assigns(t, n) ==
  /\ t \in alive
  /\ tlStats' = Assign(t, n)
  /\ result' = Returned
  /\ UNCHANGED <<base, alive, scan>>

\* void add(uint64_t n) { val_.tlStats() += n; }
TLCounter_add(t, n) ==
  /\ t \in alive
  /\ tlStats' = Assign(t, Wrap(Cell(t) + n))
  /\ result' = Returned
  /\ UNCHANGED <<base, alive, scan>>

\* A sub_fetch that behaves as AtomicCounterT::sub_fetch on the cell.
TLCounter_sub_fetch_cell(t, n) ==
  /\ t \in alive
  /\ tlStats' = Assign(t, Wrap(Cell(t) - n))
  /\ result' = [ret |-> <<Wrap(Cell(t) - n)>>, raised |-> ""]
  /\ UNCHANGED <<base, alive, scan>>

\* uint64_t sub_fetch(uint64_t) { throw std::runtime_error(...); }
TLCounter_sub_fetch(t, n) ==
  /\ t \in alive
  /\ result' = Threw("sub_fetch not supported")
  /\ UNCHANGED <<base, tlStats, alive, scan>>

\* A sub that adds its operand to the cell.
TLCounter_sub_adds(t, n) ==
  /\ t \in alive
  /\ tlStats' = Assign(t, Wrap(Cell(t) + n))
  /\ result' = Returned
  /\ UNCHANGED <<base, alive, scan>>

\* void sub(uint64_t n) { val_.tlStats() -= n; }
TLCounter_sub(t, n) ==
  /\ t \in alive
  /\ tlStats' = Assign(t, Wrap(Cell(t) - n))
  /\ result' = Returned
  /\ UNCHANGED <<base, alive, scan>>

\* An inc that decrements.
TLCounter_inc_decrements(t) ==
  /\ t \in alive
  /\ tlStats' = Assign(t, Wrap(Cell(t) - 1))
  /\ result' = Returned
  /\ UNCHANGED <<base, alive, scan>>

\* An inc that counts in one cell shared by all threads.
TLCounter_inc_shared(t) ==
  /\ t \in alive
  /\ tlStats' = [u \in DOMAIN tlStats \cup {1} |->
                   IF u = 1 THEN Wrap(Cell(1) + 1) ELSE tlStats[u]]
  /\ result' = Returned
  /\ UNCHANGED <<base, alive, scan>>

\* void inc() { ++val_.tlStats(); }
TLCounter_inc(t) ==
  /\ t \in alive
  /\ tlStats' = Assign(t, Wrap(Cell(t) + 1))
  /\ result' = Returned
  /\ UNCHANGED <<base, alive, scan>>

\* void dec() { --val_.tlStats(); }
TLCounter_dec(t) ==
  /\ t \in alive
  /\ tlStats' = Assign(t, Wrap(Cell(t) - 1))
  /\ result' = Returned
  /\ UNCHANGED <<base, alive, scan>>

\* Thread t terminates; its cell, if it has one, stays in the counter.
ThreadExit(t) ==
  /\ t \in alive
  /\ alive' = alive \ {t}
  /\ result' = Returned
  /\ UNCHANGED <<base, tlStats, scan>>

(* -------------------------------- histories ----------------------------- *)
\* No TLCounter call has been made.
NoCall == [op |-> "ctor", t |-> 0, n |-> 0]

History(c) ==
  /\ ctorInit = c
  /\ deltaSum = 0
  /\ tlLast = NoCall
  /\ dirty = FALSE
  /\ seen = {}
  /\ lstart = 0
  /\ writes = 0
  /\ rets = <<>>

\* The step is the call op(n) of thread t.
Log(op, t, n) ==
  /\ tlLast' = [op |-> op, t |-> t, n |-> n]
  /\ UNCHANGED <<atomicVars, ctorInit, deltaSum, dirty, seen, lstart, writes, rets>>

\* The step is a write of thread t while get() calls are made: what is kept
\* is whether it was a set, and then its argument.
Mark(op, t, n) ==
  /\ tlLast' = [op |-> IF op = "set" THEN "set" ELSE "write", t |-> t,
                n |-> IF op = "set" THEN n ELSE 0]
  /\ dirty' = (scan.pc # "idle")
  /\ UNCHANGED <<atomicVars, ctorInit, deltaSum, seen, lstart, writes, rets>>

\* The step is a write that applies the delta d while get() calls are made.
Apply(d) ==
  /\ deltaSum' = Wrap(deltaSum + d)
  /\ dirty' = (scan.pc # "idle")
  /\ UNCHANGED <<atomicVars, ctorInit, tlLast, seen, lstart, writes, rets>>

\* The step is an AtomicCounterT call that applies the delta d.
Sum(d) ==
  /\ deltaSum' = Wrap(deltaSum + d)
  /\ UNCHANGED <<tlVars, ctorInit, tlLast, dirty, seen, lstart, writes, rets>>

\* The step is a step of a get() after its entry.
Scanning == UNCHANGED <<atomicVars, histVars>>

\* The step is the entry of a get().
Fresh ==
  /\ dirty' = FALSE
  /\ UNCHANGED <<atomicVars, ctorInit, deltaSum, tlLast, seen, lstart, writes, rets>>

\* The step is the entry of a get(), and the history remembers it as the
\* most recent call.
Entered ==
  /\ dirty' = FALSE
  /\ tlLast' = [op |-> "get", t |-> 0, n |-> 0]
  /\ UNCHANGED <<atomicVars, ctorInit, deltaSum, seen, lstart, writes, rets>>

\* The step is the entry of a get(): the total the counter has now is the
\* first of the totals it has while the get() runs.
Begun ==
  /\ dirty' = FALSE
  /\ seen' = {getSnapshot}
  /\ UNCHANGED <<atomicVars, ctorInit, deltaSum, tlLast, lstart, writes, rets>>

\* The totals the counter has had while the get() in flight ran, this step
\* of another thread included.
Totals == IF scan.pc = "scanning" THEN seen \cup {getSnapshot'} ELSE seen

\* The step is a write of a cell while get() calls are made, one of the
\* MaxWrites writes that the threads make.
Wrote ==
  /\ writes < MaxWrites
  /\ writes' = writes + 1
  /\ dirty' = (scan.pc # "idle")
  /\ seen' = Totals
  /\ UNCHANGED <<atomicVars, ctorInit, deltaSum, tlLast, lstart, rets>>

\* The step is the write op(n) of thread t, one of the MaxWrites writes that
\* the threads make.
Logged(op, t, n) ==
  /\ writes < MaxWrites
  /\ writes' = writes + 1
  /\ tlLast' = [op |-> op, t |-> t, n |-> n]
  /\ UNCHANGED <<atomicVars, ctorInit, deltaSum, dirty, seen, lstart, rets>>

\* The step is the entry of a get(), and the history remembers the total
\* of that moment.
Started ==
  /\ lstart' = Total
  /\ UNCHANGED <<atomicVars, ctorInit, deltaSum, tlLast, dirty, seen, writes, rets>>

\* The step is a write that adds n and does not take the total past the
\* maximum of the type: nothing wraps around.
Grew(n) ==
  /\ Total + n <= MaxVal
  /\ UNCHANGED <<atomicVars, histVars>>

\* The step is the one call of thread t, and it is a call of the operation
\* the other threads called; the history keeps what it returned.
Once(t) ==
  /\ t \notin DOMAIN rets
  /\ \A u \in DOMAIN rets : rets[u].op = last'.op
  /\ rets' = [u \in DOMAIN rets \cup {t} |-> IF u = t THEN last' ELSE rets[u]]
  /\ UNCHANGED <<tlVars, ctorInit, deltaSum, tlLast, dirty, seen, lstart,
                 writes>>

\* The step is a call that throws, and so writes nothing, while get()
\* calls are made.
Thrown ==
  /\ seen' = Totals
  /\ UNCHANGED <<atomicVars, ctorInit, deltaSum, tlLast, dirty, lstart, writes, rets>>

(* ------------------------------ specifications -------------------------- *)
\* The AtomicCounterT "a" was default-constructed and never called.
UnusedAtomic == last = Call("ctor", "a", "a", 0, 0, 0, <<>>, 0)
\* The TLCounter was default-constructed and never called.
UnusedTL == base = 0 /\ tlLast = NoCall

\* The step is a call of an AtomicCounterT: the TLCounter and the histories
\* stay as they are.
Quiet == UNCHANGED <<tlVars, histVars>>

\* Every AtomicCounterT operation, by any thread, on the counter "a".  Each
\* operation is one atomic access of the cell, so an interleaving of the
\* threads' calls is a sequence of these steps.
NextAtomic ==
  \/ \E e \in Operands, d \in Operands :
       UnusedTL /\ AtomicCounterT_compare_exchange_strong("a", e, d) /\ Quiet
  \/ UnusedTL /\ AtomicCounterT_get("a") /\ Quiet
  \/ \E n \in Operands : UnusedTL /\ AtomicCounterT_set("a", n) /\ Quiet
  \/ \E n \in Operands : UnusedTL /\ AtomicCounterT_add_fetch("a", n) /\ Quiet
  \/ \E n \in Operands : UnusedTL /\ AtomicCounterT_add("a", n) /\ Quiet
  \/ \E n \in Operands : UnusedTL /\ AtomicCounterT_sub_fetch("a", n) /\ Quiet
  \/ \E n \in Operands : UnusedTL /\ AtomicCounterT_sub("a", n) /\ Quiet
  \/ UnusedTL /\ AtomicCounterT_inc("a") /\ Quiet
  \/ UnusedTL /\ AtomicCounterT_dec("a") /\ Quiet

\* Every TLCounter call that writes or throws, by every live thread, and
\* threads that terminate.
NextTL ==
  \/ \E t \in Threads, n \in Deltas :
       UnusedAtomic /\ TLCounter_set(t, n) /\ Log("set", t, n)
  \/ \E t \in Threads, n \in Deltas :
       UnusedAtomic /\ TLCounter_add_fetch(t, n) /\ Log("add_fetch", t, n)
  \/ \E t \in Threads, n \in Deltas :
       UnusedAtomic /\ TLCounter_add(t, n) /\ Log("add", t, n)
  \/ \E t \in Threads, n \in Deltas :
       UnusedAtomic /\ TLCounter_sub_fetch(t, n) /\ Log("sub_fetch", t, n)
  \/ \E t \in Threads, n \in Deltas :
       UnusedAtomic /\ TLCounter_sub(t, n) /\ Log("sub", t, n)
  \/ \E t \in Threads : UnusedAtomic /\ TLCounter_inc(t) /\ Log("inc", t, 1)
  \/ \E t \in Threads : UnusedAtomic /\ TLCounter_dec(t) /\ Log("dec", t, 1)
  \/ \E t \in Threads : UnusedAtomic /\ ThreadExit(t) /\ Log("exit", t, 0)

\* The program constructs a counter of one of the two types, with or
\* without an initial value.
Init ==
  /\ \/ (\E init \in Values : AtomicCounterT_ctor(init)) /\ TLCounter_ctor(0)
     \/ AtomicCounterT_ctor(0) /\ (\E init \in BaseVals : TLCounter_ctor(init))
  /\ History(0)

\* The program calls the counter it constructed.
Next == NextAtomic \/ NextTL

Spec == Init /\ [][Next]_vars

InitCopy ==
  /\ \E init \in Values : AtomicCounterT_ctor(init)
  /\ TLCounter_ctor(0)
  /\ History(0)

\* Copies: "b" is copy-constructed from "a", the two are assigned to each
\* other, and both are mutated and read.
NextCopy ==
  \/ \E rhs \in Objs, o \in Objs : AtomicCounterT_copy(rhs, o) /\ Quiet
  \/ \E t \in Threads, rhs \in Objs, o \in Objs :
       AtomicCounterT_assign_load(t, rhs, o) /\ Quiet
  \/ \E t \in Threads : AtomicCounterT_assign_store(t) /\ Quiet
  \/ \E o \in Objs, e \in Deltas, d \in Deltas :
       AtomicCounterT_compare_exchange_strong(o, e, d) /\ Quiet
  \/ \E o \in Objs : AtomicCounterT_get(o) /\ Quiet
  \/ \E o \in Objs, n \in Deltas : AtomicCounterT_set(o, n) /\ Quiet
  \/ \E o \in Objs, n \in Deltas : AtomicCounterT_add(o, n) /\ Quiet
  \/ \E o \in Objs, n \in Deltas : AtomicCounterT_sub(o, n) /\ Quiet
  \/ \E o \in Objs : AtomicCounterT_inc(o) /\ Quiet
  \/ \E o \in Objs : AtomicCounterT_dec(o) /\ Quiet

SpecCopy == InitCopy /\ [][NextCopy]_vars

\* As Init, and the history remembers the constructor's argument.
InitArith ==
  /\ \E init \in Values : AtomicCounterT_ctor(init) /\ History(init)
  /\ TLCounter_ctor(0)

\* Threads that only call add/sub/inc/dec, and get; the history variable
\* deltaSum accumulates the deltas that were applied.
NextArith ==
  \/ \E n \in Operands : AtomicCounterT_add("a", n) /\ Sum(n)
  \/ \E n \in Operands : AtomicCounterT_sub("a", n) /\ Sum(0 - n)
  \/ AtomicCounterT_inc("a") /\ Sum(1)
  \/ AtomicCounterT_dec("a") /\ Sum(0 - 1)
  \/ AtomicCounterT_get("a") /\ Quiet

SpecArith == InitArith /\ [][NextArith]_vars

InitTL ==
  /\ AtomicCounterT_ctor(0)
  /\ \E init \in BaseVals : TLCounter_ctor(init)
  /\ History(0)

\* get() calls that run while the threads write their cells.
NextTLGet ==
  \/ TLCounter_get_begin /\ Fresh
  \/ \E u \in Threads : TLCounter_get_visit(u) /\ Scanning
  \/ TLCounter_get_return /\ Scanning
  \/ \E t \in Threads, n \in Deltas : TLCounter_set(t, n) /\ Mark("set", t, n)
  \/ \E t \in Threads, n \in Deltas : TLCounter_add(t, n) /\ Mark("add", t, n)
  \/ \E t \in Threads, n \in Deltas : TLCounter_sub(t, n) /\ Mark("sub", t, n)
  \/ \E t \in Threads : TLCounter_inc(t) /\ Mark("inc", t, 1)
  \/ \E t \in Threads : TLCounter_dec(t) /\ Mark("dec", t, 1)

SpecTLGet == InitTL /\ [][NextTLGet]_vars

\* get() calls that run while the threads call add/sub/inc/dec and never
\* set; the history variable deltaSum accumulates the deltas applied.
NextTLSum ==
  \/ TLCounter_get_begin /\ Fresh
  \/ \E u \in Threads : TLCounter_get_visit(u) /\ Scanning
  \/ TLCounter_get_return /\ Scanning
  \/ \E t \in Threads, n \in Deltas : TLCounter_add(t, n) /\ Apply(n)
  \/ \E t \in Threads, n \in Deltas : TLCounter_sub(t, n) /\ Apply(0 - n)
  \/ \E t \in Threads : TLCounter_inc(t) /\ Apply(1)
  \/ \E t \in Threads : TLCounter_dec(t) /\ Apply(0 - 1)

SpecTLSum == InitTL /\ [][NextTLSum]_vars

\* get() calls that run while the threads call add(1)/sub(1) and
\* terminate; a terminated thread calls nothing any more.
NextTLExit ==
  \/ TLCounter_get_begin /\ Entered
  \/ \E u \in Threads : TLCounter_get_visit(u) /\ Scanning
  \/ TLCounter_get_return /\ Scanning
  \/ \E t \in Threads : TLCounter_add(t, 1) /\ Apply(1)
  \/ \E t \in Threads : TLCounter_sub(t, 1) /\ Apply(0 - 1)
  \/ \E t \in Threads : ThreadExit(t) /\ Log("exit", 0, 0)

SpecTLExit == InitTL /\ [][NextTLExit]_vars

\* get() calls that run while the threads call inc and dec, MaxWrites times
\* between them, and sub_fetch, which throws; the history keeps every total
\* the counter has meanwhile.
NextTLLin ==
  \/ TLCounter_get_begin /\ Begun
  \/ \E u \in Threads : TLCounter_get_visit(u) /\ Scanning
  \/ TLCounter_get_return /\ Scanning
  \/ \E t \in Threads : TLCounter_inc(t) /\ Wrote
  \/ \E t \in Threads : TLCounter_dec(t) /\ Wrote
  \/ \E t \in Threads, n \in Deltas : TLCounter_sub_fetch(t, n) /\ Thrown

SpecTLLin == InitTL /\ [][NextTLLin]_vars

\* get() calls that run while the threads make their first and later
\* writes, MaxWrites between them.
NextTLCell ==
  \/ TLCounter_get_begin /\ Scanning
  \/ \E u \in Threads : TLCounter_get_visit(u) /\ Scanning
  \/ TLCounter_get_return /\ Scanning
  \/ \E t \in Threads, n \in Deltas : TLCounter_set(t, n) /\ Logged("set", t, n)
  \/ \E t \in Threads, n \in Deltas : TLCounter_add(t, n) /\ Logged("add", t, n)
  \/ \E t \in Threads, n \in Deltas : TLCounter_sub(t, n) /\ Logged("sub", t, n)
  \/ \E t \in Threads : TLCounter_inc(t) /\ Logged("inc", t, 1)
  \/ \E t \in Threads : TLCounter_dec(t) /\ Logged("dec", t, 1)

SpecTLCell == InitTL /\ [][NextTLCell]_vars

\* get() calls that run while the threads only call add and inc, as long
\* as the total stays within the type.
NextTLGrow ==
  \/ TLCounter_get_begin /\ Started
  \/ \E u \in Threads : TLCounter_get_visit(u) /\ Scanning
  \/ TLCounter_get_return /\ Scanning
  \/ \E t \in Threads, n \in Operands : TLCounter_add(t, n) /\ Grew(n)
  \/ \E t \in Threads : TLCounter_inc(t) /\ Grew(1)

SpecTLGrow == InitTL /\ [][NextTLGrow]_vars

\* Every thread calls the same operation once, on the counter as it was
\* constructed: add_fetch(1), sub_fetch(1), or compare_exchange_strong with
\* the constructed value as expected and another value as desired.  Nothing
\* else writes the cell; it may be read at any time.
NextOnce ==
  \/ \E t \in Threads : AtomicCounterT_add_fetch("a", 1) /\ Once(t)
  \/ \E t \in Threads : AtomicCounterT_sub_fetch("a", 1) /\ Once(t)
  \/ \E t \in Threads, d \in Values \ {ctorInit} :
       AtomicCounterT_compare_exchange_strong("a", ctorInit, d) /\ Once(t)
  \/ AtomicCounterT_get("a") /\ Quiet

SpecOnce == InitArith /\ [][NextOnce]_vars

\* No call was made on the TLCounter, and none on the AtomicCounterT.
OnlyAtomic == UnusedTL /\ scan = NoScan /\ DOMAIN tlStats = {}
OnlyTL == UnusedAtomic /\ tmp = <<>> /\ DOMAIN val_ = {"a"}

\* The operations that take more than one step, operator= (the copy "b" is
\* assigned from "a") and TLCounter::get, while other threads write (the
\* TLCounter MaxWrites times).
NextFair ==
  \/ OnlyAtomic /\ AtomicCounterT_copy("a", "b") /\ Quiet
  \/ \E t \in Threads :
       OnlyAtomic /\ AtomicCounterT_assign_load(t, "a", "b") /\ Quiet
  \/ \E t \in Threads : OnlyAtomic /\ AtomicCounterT_assign_store(t) /\ Quiet
  \/ \E n \in Deltas : OnlyAtomic /\ AtomicCounterT_set("a", n) /\ Quiet
  \/ \E o \in Objs : OnlyAtomic /\ AtomicCounterT_inc(o) /\ Quiet
  \/ OnlyTL /\ TLCounter_get_begin /\ Begun
  \/ \E u \in Threads : OnlyTL /\ TLCounter_get_visit(u) /\ Scanning
  \/ OnlyTL /\ TLCounter_get_return /\ Scanning
  \/ \E t \in Threads : OnlyTL /\ TLCounter_inc(t) /\ Wrote
  \/ \E t \in Threads, n \in Deltas : OnlyTL /\ TLCounter_set(t, n) /\ Wrote

\* A thread that is inside an operation keeps running: the scheduler lets
\* it take its next step.
Fairness ==
  /\ \A t \in Threads : WF_vars(AtomicCounterT_assign_store(t) /\ Quiet)
  /\ WF_vars(\E u \in scan.todo : TLCounter_get_visit(u) /\ Scanning)
  /\ WF_vars(TLCounter_get_return /\ Scanning)

SpecFair == Init /\ [][NextFair]_vars /\ Fairness

(* -------------------------------- claims -------------------------------- *)
\* The values the claims expect, written without the model's arithmetic.
Plus(v, n) == IF v + n > MaxVal THEN v + n - Mod ELSE v + n
Minus(v, n) == IF v - n < 0 THEN v - n + Mod ELSE v - n
WriteOps == {"set", "add", "sub", "inc", "dec"}
OtherCells(t) == SumCells(tlStats, DOMAIN tlStats \ {t})

\* C1: on an AtomicCounterT that threads update only through add, sub, inc
\* and dec, in any interleaving, the cell holds the constructor's value plus
\* the sum of all applied deltas modulo 2^Width, and so does every get().
C1_NoLostUpdate ==
  /\ val_["a"] = Wrap(ctorInit + deltaSum)
  /\ last.op = "get" => last.ret = <<Wrap(ctorInit + deltaSum)>>

\* A get() after updates whose sum wrapped the cell around.
C1_Witness ==
  /\ last.op = "get"
  /\ ctorInit = MaxVal
  /\ deltaSum = 2
  /\ last.ret = <<1>>

\* C2: AtomicCounterT::add_fetch(n) returns the cell's value before its own
\* atomic update plus n, sub_fetch(n) that value minus n (modulo 2^Width),
\* and the returned value is the value the call left in the cell.
C2_FetchReturnsPost ==
  /\ last.op = "add_fetch" =>
       /\ last.ret = <<Plus(last.pre, last.n)>>
       /\ val_[last.o] = Plus(last.pre, last.n)
  /\ last.op = "sub_fetch" =>
       /\ last.ret = <<Minus(last.pre, last.n)>>
       /\ val_[last.o] = Minus(last.pre, last.n)

\* An add_fetch of a non-zero operand on a non-zero cell has returned.
C2_Witness ==
  /\ last.op = "add_fetch"
  /\ last.pre = 1
  /\ last.n = 2
  /\ last.ret = <<3>>

\* C3: compare_exchange_strong returns true iff the cell equals expected;
\* on success the cell holds desired and expected is unchanged; on failure
\* the cell is unchanged and expected holds the cell's value.
C3_CompareExchange ==
  last.op = "compare_exchange_strong" =>
    /\ last.ret \in {<<TRUE>>, <<FALSE>>}
    /\ (last.ret = <<TRUE>>) <=> (last.pre = last.e)
    /\ last.ret = <<TRUE>> => val_[last.o] = last.n /\ last.eout = last.e
    /\ last.ret = <<FALSE>> =>
         val_[last.o] = last.pre /\ last.eout = last.pre

\* A compare_exchange_strong has failed and overwritten expected.
C3_Witness ==
  /\ last.op = "compare_exchange_strong"
  /\ last.ret = <<FALSE>>
  /\ last.eout # last.e
  /\ last.n # last.pre
  /\ val_[last.o] = last.pre

\* C4: a copy (construction or assignment) leaves in its target the value
\* loaded from the source, a copy construction leaves the source as it was,
\* and every step, a copy or a mutation, changes no cell but its target's:
\* mutating the original never changes the copy and the reverse.
C4_CopyIndependent ==
  [][/\ (last'.op = "copy" /\ last'.o \notin DOMAIN val_) =>
          /\ val_'[last'.o] = val_[last'.rhs]
          /\ val_'[last'.rhs] = val_[last'.rhs]
     /\ (last'.op = "assign" /\ tmp # <<>> /\ tmp' = <<>>) =>
          val_'[last'.o] = tmp[1].v
     /\ \A x \in DOMAIN val_ : x # last'.o => val_'[x] = val_[x]
    ]_vars

\* The original was incremented after the copy was made, and the copy
\* still holds the value the original had before.
C4_Witness ==
  /\ DOMAIN val_ = Objs
  /\ last.op = "inc"
  /\ last.o = "a"
  /\ val_["b"] = last.pre
  /\ val_["a"] # val_["b"]

\* C5: when the threads only call add/sub/inc/dec on a TLCounter, a get()
\* that begins after the writes have completed returns the base plus the sum
\* of all applied deltas, whatever the interleaving of the writes was.
C5_SumAfterWrites ==
  (scan.pc = "done" /\ ~dirty) => scan.acc = Wrap(base + deltaSum)

\* A get() has returned after every thread had written a non-zero cell.
C5_Witness ==
  /\ scan.pc = "done"
  /\ ~dirty
  /\ DOMAIN tlStats = Threads
  /\ \A u \in Threads : tlStats[u] = 1
  /\ base = MaxVal
  /\ scan.acc = Plus(MaxVal, NumThreads)

\* C6: every TLCounter::add_fetch and sub_fetch throws and returns no value,
\* and leaves the base, every cell and so the result of get() as they were.
C6_FetchUnsupported ==
  [][tlLast'.op \in {"add_fetch", "sub_fetch"} =>
       /\ result'.raised # ""
       /\ result'.ret = <<>>
       /\ tlStats' = tlStats
       /\ base' = base
       /\ getSnapshot' = getSnapshot
    ]_vars

\* A sub_fetch has thrown on a counter whose cells are not all zero.
C6_Witness ==
  /\ tlLast.op = "sub_fetch"
  /\ result.raised = "sub_fetch not supported"
  /\ tlLast.t \in DOMAIN tlStats
  /\ getSnapshot # base

\* C7: when thread T is the only thread that ever wrote to the TLCounter
\* and its latest write was set(n), a get() that begins afterwards returns
\* base + n.
C7_SetSingleWriter ==
  (/\ scan.pc = "done"
   /\ ~dirty
   /\ tlLast.op = "set"
   /\ DOMAIN tlStats = {tlLast.t})
    => scan.acc = Plus(base, tlLast.n)

\* A get() has returned after the set of the only writer, on a counter with
\* a non-zero base.
C7_Witness ==
  /\ scan.pc = "done"
  /\ ~dirty
  /\ tlLast.op = "set"
  /\ DOMAIN tlStats = {tlLast.t}
  /\ base = MaxVal
  /\ tlLast.n = 1
  /\ scan.acc = 0

\* C8: on both counter types the arithmetic wraps modulo 2^Width: inc at
\* the maximum gives 0, dec at 0 gives the maximum, add_fetch and sub_fetch
\* return the wrapped value, and the TLCounter cell wraps the same way,
\* without an exception.
C8_Wraparound ==
  [][/\ last'.op \in {"inc", "add", "add_fetch"} =>
          val_'["a"] = Plus(val_["a"], last'.n)
     /\ last'.op \in {"dec", "sub", "sub_fetch"} =>
          val_'["a"] = Minus(val_["a"], last'.n)
     /\ last'.op = "add_fetch" => last'.ret = <<Plus(val_["a"], last'.n)>>
     /\ last'.op = "sub_fetch" => last'.ret = <<Minus(val_["a"], last'.n)>>
     /\ tlLast'.op \in {"inc", "add"} =>
          tlStats'[tlLast'.t] = Plus(Cell(tlLast'.t), tlLast'.n)
     /\ tlLast'.op \in {"dec", "sub"} =>
          tlStats'[tlLast'.t] = Minus(Cell(tlLast'.t), tlLast'.n)
     /\ tlLast'.op \in WriteOps => result'.raised = ""
    ]_vars

\* An AtomicCounterT at its maximum was incremented and reads 0.
C8_Witness ==
  /\ last.op = "inc"
  /\ last.pre = MaxVal
  /\ val_["a"] = 0

\* C9 as stated: set(n) of thread T replaces T's cell only, the total is
\* base + n + the other cells, and the total is not n whenever the base or
\* another thread's cell is non-zero.
C9_Original ==
  [][tlLast'.op = "set" =>
       /\ tlStats'[tlLast'.t] = tlLast'.n
       /\ base' = base
       /\ \A u \in Threads \ {tlLast'.t} :
            /\ u \in DOMAIN tlStats' <=> u \in DOMAIN tlStats
            /\ u \in DOMAIN tlStats => tlStats'[u] = tlStats[u]
       /\ getSnapshot' = Wrap(base + tlLast'.n + OtherCells(tlLast'.t))
       /\ (base # 0 \/ \E u \in DOMAIN tlStats \ {tlLast'.t} : tlStats[u] # 0)
            => getSnapshot' # tlLast'.n
    ]_vars

\* C9 as amended: set(n) of thread T replaces T's cell only, the total is
\* base + n + the other cells, and the total is not n whenever the base
\* plus the other threads' cells is non-zero modulo 2^Width.
C9_SetOneShard ==
  [][tlLast'.op = "set" =>
       /\ tlStats'[tlLast'.t] = tlLast'.n
       /\ base' = base
       /\ \A u \in Threads \ {tlLast'.t} :
            /\ u \in DOMAIN tlStats' <=> u \in DOMAIN tlStats
            /\ u \in DOMAIN tlStats => tlStats'[u] = tlStats[u]
       /\ getSnapshot' = Wrap(base + tlLast'.n + OtherCells(tlLast'.t))
       /\ Wrap(base + OtherCells(tlLast'.t)) # 0 => getSnapshot' # tlLast'.n
    ]_vars

\* A set was made while the base and another thread's cell were non-zero,
\* and the total is not the argument of the set.
C9_Witness ==
  /\ tlLast.op = "set"
  /\ base # 0
  /\ \E u \in DOMAIN tlStats \ {tlLast.t} : tlStats[u] # 0
  /\ tlStats[tlLast.t] = tlLast.n
  /\ getSnapshot # tlLast.n

\* C10: a write (set, add, sub, inc, dec) of thread T leaves T with a cell
\* and changes neither the base nor the cell of any other thread, live or
\* terminated; no cell of another thread appears or disappears.
C10_WriteOwnCellOnly ==
  [][tlLast'.op \in WriteOps =>
       /\ tlLast'.t \in DOMAIN tlStats'
       /\ base' = base
       /\ \A u \in Threads \ {tlLast'.t} :
            /\ u \in DOMAIN tlStats' <=> u \in DOMAIN tlStats
            /\ u \in DOMAIN tlStats => tlStats'[u] = tlStats[u]
    ]_vars

\* A thread has written while a terminated thread's non-zero cell was in
\* the counter.
C10_Witness ==
  /\ tlLast.op = "inc"
  /\ \E u \in DOMAIN tlStats \ alive : u # tlLast.t /\ tlStats[u] # 0
  /\ tlLast.t \in alive

\* C11: the logical value of a TLCounter, the base plus the cells of all
\* threads, live or terminated, is in every state the base plus every delta
\* that was ever applied; the cell of a thread that terminates is neither
\* removed nor reset, so a get() that runs after the exit with no concurrent
\* write still returns the total with that thread's contribution.
C11_CellsPersist ==
  /\ getSnapshot = Wrap(base + deltaSum)
  /\ (scan.pc = "done" /\ ~dirty) => scan.acc = Wrap(base + deltaSum)

\* Every thread wrote and terminated, a get() began after the last exit and
\* has returned the base plus the cells of the terminated threads.
C11_Witness ==
  /\ alive = {}
  /\ tlLast.op = "get"
  /\ scan.pc = "done"
  /\ ~dirty
  /\ DOMAIN tlStats = Threads
  /\ \A u \in Threads : tlStats[u] = 1
  /\ base = MaxVal
  /\ scan.acc = Plus(MaxVal, NumThreads)

\* C12: get() is not a linearizable snapshot.  A get() during which no
\* thread wrote a cell returns a total the counter had while it ran (calls
\* that throw do not disturb it); with concurrent writers there is an
\* interleaving, the one of C12_Witness, in which the value returned is not
\* the total of any instant between the start and the end of the get().
C12_NotLinearizable ==
  (scan.pc = "done" /\ ~dirty) => scan.acc \in seen

\* A get() has returned a value that the total did not have at any instant
\* from its start to its end, while other threads wrote their cells.
C12_Witness ==
  /\ scan.pc = "done"
  /\ dirty
  /\ scan.acc \notin seen
  /\ getSnapshot \in seen
  /\ Cardinality(seen) > 1

\* C13: on both counter types inc() leads from any state to the counter
\* state that add(1) leads to, and dec() to the one sub(1) leads to: the
\* cell of an AtomicCounterT, or the calling thread's cell of a TLCounter
\* with the base and the other cells kept, wraparound included, and none of
\* the four returns a value.
C13_IncIsAddOne ==
  [][/\ (last'.op = "inc" \/ (last'.op = "add" /\ last'.n = 1)) =>
          /\ val_' = [val_ EXCEPT !["a"] = Plus(val_["a"], 1)]
          /\ last'.ret = <<>>
     /\ (last'.op = "dec" \/ (last'.op = "sub" /\ last'.n = 1)) =>
          /\ val_' = [val_ EXCEPT !["a"] = Minus(val_["a"], 1)]
          /\ last'.ret = <<>>
     /\ (tlLast'.op = "inc" \/ (tlLast'.op = "add" /\ tlLast'.n = 1)) =>
          /\ tlStats' = Assign(tlLast'.t, Plus(Cell(tlLast'.t), 1))
          /\ base' = base
          /\ result' = Returned
     /\ (tlLast'.op = "dec" \/ (tlLast'.op = "sub" /\ tlLast'.n = 1)) =>
          /\ tlStats' = Assign(tlLast'.t, Minus(Cell(tlLast'.t), 1))
          /\ base' = base
          /\ result' = Returned
    ]_vars

\* An AtomicCounterT holding 0 was decremented and holds the maximum.
C13_Witness ==
  /\ last.op = "dec"
  /\ last.pre = 0
  /\ val_["a"] = MaxVal

\* C14: every operation that was started completes, whatever the other
\* threads do meanwhile: a copy assignment in flight reaches its store and
\* returns, and a get() that is enumerating the cells reaches its return.
\* The other operations are one atomic step, or one access of the calling
\* thread's own cell, and return in the step in which they start.
C14_Completes ==
  /\ (tmp # <<>>) ~> (tmp = <<>>)
  /\ (scan.pc = "scanning") ~> (scan.pc = "done")

\* A copy assignment has returned after another thread wrote the source
\* between its load and its store.
C14_Witness ==
  /\ last.op = "assign"
  /\ DOMAIN val_ = Objs
  /\ val_["b"] # val_["a"]
  /\ tmp = <<>>

\* C15: an AtomicCounterT reads the value it was constructed with (0 when
\* default-constructed) until it is written; set(n) leaves the cell at n
\* whatever it held, so a get() that follows the set with no write between
\* returns n; and get() returns the cell and leaves it as it is.
C15_SetThenGet ==
  [][/\ last'.op = "get" =>
          /\ val_' = val_
          /\ last'.ret = <<val_["a"]>>
     /\ last'.op = "set" => val_'["a"] = last'.n
     /\ (last'.op = "get" /\ last.op \in {"ctor", "set"}) =>
          last'.ret = <<last.n>>
    ]_vars

\* A set has overwritten a cell that held another, non-zero value.
C15_Witness ==
  /\ last.op = "set"
  /\ last.pre # 0
  /\ last.pre # last.n
  /\ val_["a"] = last.n

\* C16: the cell of a thread is created, with value 0, by the thread's
\* first write and before the write is applied: a first set(n) or add(n)
\* leaves n, a first sub(n) leaves -n modulo 2^Width, a first inc 1 and a
\* first dec the maximum.  No other step creates a cell, no step removes
\* one, and the steps of a get() change neither the base nor any cell, so
\* they leave the logical total as it is.
C16_CellLifecycle ==
  [][/\ DOMAIN tlStats \subseteq DOMAIN tlStats'
     /\ \A t \in DOMAIN tlStats' \ DOMAIN tlStats :
          tlLast'.t = t /\ tlLast'.op \in WriteOps
     /\ (tlLast'.op \in {"set", "add", "inc"}
           /\ tlLast'.t \notin DOMAIN tlStats) =>
          tlStats'[tlLast'.t] = Plus(0, tlLast'.n)
     /\ (tlLast'.op \in {"sub", "dec"} /\ tlLast'.t \notin DOMAIN tlStats) =>
          tlStats'[tlLast'.t] = Minus(0, tlLast'.n)
     /\ scan' # scan =>
          /\ tlStats' = tlStats
          /\ base' = base
          /\ getSnapshot' = getSnapshot
    ]_vars

\* The first write to the counter was a sub(1): the thread's cell exists
\* and holds the maximum, and a get() has returned the total with it.
C16_Witness ==
  /\ writes = 1
  /\ tlLast.op = "sub"
  /\ tlLast.n = 1
  /\ DOMAIN tlStats = {tlLast.t}
  /\ tlStats[tlLast.t] = MaxVal
  /\ scan.pc = "done"
  /\ scan.acc = Minus(base, 1)

\* C17: while the threads only call add and inc and nothing wraps around,
\* a get() returns a value between the total the counter had when the get()
\* began and the total it has when the get() returns, whether or not the
\* cells created during the enumeration were included.
C17_BetweenStartAndEnd ==
  [][(scan.pc = "scanning" /\ scan'.pc = "done") =>
       /\ lstart <= scan'.acc
       /\ scan'.acc <= Total'
    ]_vars

\* A get() began before any thread had a cell and returned a value strictly
\* between the total at its start and the present total: it included one of
\* the cells created meanwhile and missed a later addition.
C17_Witness ==
  /\ scan.pc = "done"
  /\ DOMAIN tlStats = Threads
  /\ lstart = base
  /\ lstart < scan.acc
  /\ scan.acc < Total

\* The threads that have made their one call, and whether those calls were
\* calls of op.
Called == DOMAIN rets
AllCalled(op) == Called # {} /\ \A t \in Called : rets[t].op = op

\* C18: when k threads have each called add_fetch(1) once on a counter that
\* held v, in any interleaving, the values returned are pairwise distinct
\* and are v+1 .. v+k modulo 2^Width; for sub_fetch(1) they are v-1 .. v-k.
C18_DistinctReturns ==
  LET k == Cardinality(Called)
      returned == {rets[t].ret[1] : t \in Called}
  IN /\ AllCalled("add_fetch") =>
          /\ returned = {Plus(ctorInit, i) : i \in 1 .. k}
          /\ \A t, u \in Called : t # u => rets[t].ret # rets[u].ret
          /\ val_["a"] = Plus(ctorInit, k)
     /\ AllCalled("sub_fetch") =>
          /\ returned = {Minus(ctorInit, i) : i \in 1 .. k}
          /\ \A t, u \in Called : t # u => rets[t].ret # rets[u].ret
          /\ val_["a"] = Minus(ctorInit, k)

\* Every thread has called sub_fetch(1) on a counter that held 0, and the
\* thread with the highest number was not the last to be served.
C18_Witness ==
  /\ AllCalled("sub_fetch")
  /\ Called = Threads
  /\ ctorInit = 0
  /\ rets[NumThreads].ret = <<MaxVal>>
  /\ val_["a"] = Minus(0, NumThreads)

\* C19: when the threads have each called compare_exchange_strong once,
\* all with the value the cell held as expected and with desired values
\* other than it, and nothing else wrote the cell, exactly one call returned
\* true; every other call returned false and left the winner's desired
\* value in its expected; and the cell holds the winner's desired value.
C19_OneWinner ==
  AllCalled("compare_exchange_strong") =>
    \E w \in Called :
      /\ rets[w].ret = <<TRUE>>
      /\ rets[w].pre = ctorInit
      /\ val_["a"] = rets[w].n
      /\ \A t \in Called \ {w} :
           /\ rets[t].ret = <<FALSE>>
           /\ rets[t].eout = rets[w].n
           /\ rets[t].eout # rets[t].e

\* Every thread has called, the thread with the lowest number lost, and
\* its own desired value was not the winner's.
C19_Witness ==
  /\ AllCalled("compare_exchange_strong")
  /\ Called = Threads
  /\ rets[1].ret = <<FALSE>>
  /\ rets[1].e = ctorInit
  /\ rets[1].eout # rets[1].n
  /\ val_["a"] = rets[1].eout

====
